---- MODULE Spec2Model ----
(***************************************************************************)
(* DATAX backend (FastAPI + MongoDB): the auth service of                  *)
(* api/app/auth_router.py, the session registry of api/app/session_manager *)
(* and the chat endpoints of api/app/chat_router.py, as a state machine    *)
(* over the MongoDB collections.  Every HTTP handler is one action; the    *)
(* body of a handler is an operator from (collection, request, clock) to   *)
(* (response, collection).                                                 *)
(***************************************************************************)
EXTENDS Integers, Sequences, FiniteSets, TLC

VARIABLES
    users,        \* users_collection: documents in insertion order, _id = index
    issued,       \* per user, the latest "exp" of a bearer token issued for it
    now,          \* the wall clock, in minutes
    inflight,     \* signup requests between their find_one and their insert_one
    last,         \* the last request served and its response
    sessions,     \* sessions_collection: Session rows and OAuth state documents
    chats,        \* chat_collection: one ChatRecord per session id
    billing,      \* billing_collection: one BillingEntry per completed turn
    minted,       \* how many session ids (uuid4) have been minted
    oauth_minted, \* how many OAuth state values have been generated
    objects,      \* the object store: the object names that hold a blob
    sheet_meta,   \* db["spreadsheet_metadata"]: one row per ingested sheet
    oauth_log,    \* history: the state connect last handed to each user, and
                  \* the states that successful exchanges accepted
    files,        \* file_collection: one metadata row per uploaded file
    uploads,      \* the uploads bucket: the object names that hold a blob
    file_minted,  \* how many file ids (ObjectId) have been generated
    turns         \* the agent turns that returned a response: their usage, the
                  \* writes that fail, and the writes still to be performed

authVars == <<users, issued, inflight>>
storeVars ==
    << sessions, chats, billing, minted, oauth_minted, objects, sheet_meta, oauth_log,
       files, uploads, file_minted, turns >>
vars == <<users, issued, now, inflight, last, storeVars>>

----------------------------------------------------------------------------
\* Bounds of the model

MaxTicks == 2           \* clock advances in the auth flows
TickMinutes == 10       \* minutes per clock advance
MaxInflight == 2        \* signup requests in flight at once (signup race)
GateTicks == 2          \* clock advances where bearer tokens expire
GateMinutes == 35       \* minutes per such advance
MaxSessions == 1        \* session ids minted
MaxTurns == 1           \* completed agent turns
MaxStates == 2          \* OAuth states handed out
MaxFaults == 1          \* storage writes that fail in one chat turn
MaxFiles == 2           \* files uploaded
MaxThread == 11         \* messages in the thread of an agent
MaxRacing == 2          \* send_message requests in flight at once

Emails == {"a@b.com"}                 \* the addresses that sign up
UnknownEmail == "x@y.com"             \* an address that never signs up
Passwords == {"pw123456", "hunter2"}
Codes == {"123456", "000000"}         \* two of the 10^6 six-digit codes
Contents == {"how many rows?"}        \* the chat messages users send
CLIENT_SESSION_ID == "my-session"     \* a session id a client makes up
FORGED_STATE == "forged-state"        \* an OAuth state a client makes up
GoogleCodes == {"4/0AX"}              \* authorization codes of the provider
SheetIds == {"sheet-1"}               \* spreadsheets of a Google account
GoogleAccounts == <<"a@b.com", "c@d.com">>  \* the two users of the Sheets flow

----------------------------------------------------------------------------
\* Program constants

ACCESS_TOKEN_EXPIRE_MINUTES == 60
OTP_EXPIRE_MINUTES == 10
RESET_EXPIRE_MINUTES == 10
MAX_OTP_ATTEMPTS == 5
MAX_RESET_ATTEMPTS == 5

\* Python None / an absent field, per field type
NoTime == -1
NoCount == -1
NoHash == ""
NoCreds == ""
NoUser == 0

----------------------------------------------------------------------------
\* Helpers: JWT & passwords

\* pwd_context.hash: the stored value is never the plaintext itself
hash_password(password) == "$2b$" \o password

verify_password(password, password_hash) ==
    /\ password_hash # NoHash
    /\ password_hash = hash_password(password)

\* create_access_token({"sub": uid}) at time t
create_access_token(uid, t) ==
    [sub |-> uid, exp |-> t + ACCESS_TOKEN_EXPIRE_MINUTES, sig |-> TRUE]

\* jwt.decode: a bad signature or an exp in the past raises JWTError -> None
decode_token(token, t) ==
    IF token.sig /\ token.exp >= t THEN token.sub ELSE NoUser

\* users_collection.find_one({"email": email}): the first match, or NoUser
find_one_email(us, email) ==
    IF \E i \in 1..Len(us) : us[i].email = email
    THEN CHOOSE i \in 1..Len(us) :
            /\ us[i].email = email
            /\ \A j \in 1..(i - 1) : us[j].email # email
    ELSE NoUser

\* get_current_user: 401 unless the token decodes to an existing user
get_current_user(us, token, t) ==
    LET user_id == decode_token(token, t) IN
    IF user_id = NoUser THEN [status |-> 401, uid |-> NoUser]
    ELSE IF user_id \notin 1..Len(us) THEN [status |-> 401, uid |-> NoUser]
    ELSE [status |-> 200, uid |-> user_id]

\* The bearer tokens a request can carry: for each user the latest token the
\* service issued for it (valid, or expired by now) and a forged one.
Tokens ==
    {[sub |-> u, exp |-> issued[u], sig |-> TRUE] : u \in 1..Len(users)}
    \cup {[sub |-> u, exp |-> now + ACCESS_TOKEN_EXPIRE_MINUTES, sig |-> FALSE] :
            u \in 1..Len(users) \cap {1}}

\* a request that carries no Authorization header
NoToken == [sub |-> NoUser, exp |-> NoTime, sig |-> FALSE]

Reply(status, detail, us) == [status |-> status, detail |-> detail, users |-> us]

----------------------------------------------------------------------------
\* Auth: email/password

user_doc(email, password, verification_code, t) ==
    [ email             |-> email,
      password_hash     |-> hash_password(password),
      verification_code |-> hash_password(verification_code),
      otp_expires_at    |-> t + OTP_EXPIRE_MINUTES,
      otp_attempts      |-> 0,
      is_verified       |-> FALSE,
      can_chat          |-> FALSE,
      last_login        |-> NoTime,
      verified_at       |-> NoTime,
      reset_code        |-> NoHash,
      reset_code_expires_at |-> NoTime,
      reset_attempts    |-> NoCount,
      google_credentials |-> NoCreds,
      stats             |-> [ total_messages |-> 0, total_input_tokens |-> 0,
                              total_output_tokens |-> 0, total_tokens |-> 0,
                              spent_usd |-> 0 ] ]

\* signup, lines 146-148: the duplicate check
email_registered(us, email) == find_one_email(us, email) # NoUser

\* signup, lines 151-169: send the OTP, then insert the new document
signup_insert(us, email, password, verification_code, mail_ok, t) ==
    IF ~mail_ok THEN Reply(500, "Failed to send email", us)
    ELSE Reply(200, "Signup successful", Append(us, user_doc(email, password, verification_code, t)))

signup(us, email, password, verification_code, mail_ok, t) ==
    IF email_registered(us, email)
    THEN Reply(400, "Email already registered", us)
    ELSE signup_insert(us, email, password, verification_code, mail_ok, t)

\* the account's verification is not checked
login_unverified(us, email, password, t) ==
    LET uid == find_one_email(us, email) IN
    IF uid = NoUser \/ ~verify_password(password, us[uid].password_hash)
    THEN Reply(401, "Invalid credentials", us)
    ELSE Reply(200, "Login successful", [us EXCEPT ![uid].last_login = t])

login(us, email, password, t) ==
    LET uid == find_one_email(us, email) IN
    IF uid = NoUser \/ ~verify_password(password, us[uid].password_hash)
    THEN Reply(401, "Invalid credentials", us)
    ELSE IF ~us[uid].is_verified
    THEN Reply(403, "Account not verified", us)
    ELSE Reply(200, "Login successful", [us EXCEPT ![uid].last_login = t])

----------------------------------------------------------------------------
\* /auth/verify

otp_expired(user, t) == user.otp_expires_at < t

\* off by one: the sixth attempt is still compared
otp_exhausted_late(user) == user.otp_attempts > MAX_OTP_ATTEMPTS

otp_exhausted(user) == user.otp_attempts >= MAX_OTP_ATTEMPTS

\* lines 245-252: the $set of a successful verification
set_verified(us, uid, t) ==
    [us EXCEPT ![uid].is_verified = TRUE,
               ![uid].verified_at = t,
               ![uid].otp_attempts = 0]

\* the code is compared before the expiry and the attempt counter are checked
verify_user_compare_first(us, email, code, t) ==
    LET uid == find_one_email(us, email) IN
    IF uid = NoUser THEN Reply(404, "User not found", us)
    ELSE IF ~verify_password(code, us[uid].verification_code)
    THEN Reply(400, "Invalid verification code",
               [us EXCEPT ![uid].otp_attempts = @ + 1])
    ELSE IF otp_expired(us[uid], t) THEN Reply(400, "OTP has expired", us)
    ELSE IF otp_exhausted(us[uid]) THEN Reply(429, "Too many attempts", us)
    ELSE Reply(200, "Account verified successfully", set_verified(us, uid, t))

\* email is the email of the user get_current_user took from the token
verify_user(us, email, code, t) ==
    LET uid == find_one_email(us, email) IN
    IF uid = NoUser THEN Reply(404, "User not found", us)
    ELSE IF otp_expired(us[uid], t) THEN Reply(400, "OTP has expired", us)
    ELSE IF otp_exhausted(us[uid]) THEN Reply(429, "Too many attempts", us)
    ELSE IF ~verify_password(code, us[uid].verification_code)
    THEN Reply(400, "Invalid verification code",
               [us EXCEPT ![uid].otp_attempts = @ + 1])
    ELSE Reply(200, "Account verified successfully", set_verified(us, uid, t))

----------------------------------------------------------------------------
\* /auth/reset-password/request, /check, /confirm

\* the code is stored as generated
set_reset_code_plaintext(us, uid, reset_code, t) ==
    [us EXCEPT ![uid].reset_code = reset_code,
               ![uid].reset_code_expires_at = t + RESET_EXPIRE_MINUTES,
               ![uid].reset_attempts = 0]

\* lines 285-292: the $set that stores a freshly generated reset code
set_reset_code(us, uid, reset_code, t) ==
    [us EXCEPT ![uid].reset_code = hash_password(reset_code),
               ![uid].reset_code_expires_at = t + RESET_EXPIRE_MINUTES,
               ![uid].reset_attempts = 0]

request_password_reset(us, email, reset_code, mail_ok, t) ==
    LET uid == find_one_email(us, email) IN
    IF uid = NoUser THEN Reply(404, "User not found", us)
    ELSE IF ~mail_ok
    THEN Reply(500, "Failed to send email", set_reset_code(us, uid, reset_code, t))
    ELSE Reply(200, "Password reset code sent to your email",
               set_reset_code(us, uid, reset_code, t))

reset_expired(user, t) == user.reset_code_expires_at < t

\* off by one: the sixth attempt is still compared
reset_exhausted_late(user) ==
    (IF user.reset_attempts = NoCount THEN 0 ELSE user.reset_attempts)
        > MAX_RESET_ATTEMPTS

\* user.get("reset_attempts", 0) >= 5
reset_exhausted(user) ==
    (IF user.reset_attempts = NoCount THEN 0 ELSE user.reset_attempts)
        >= MAX_RESET_ATTEMPTS

\* $inc creates an absent field
inc_reset_attempts(us, uid) ==
    [us EXCEPT ![uid].reset_attempts = IF @ = NoCount THEN 1 ELSE @ + 1]

check_reset_code(us, email, code, t) ==
    LET uid == find_one_email(us, email) IN
    IF uid = NoUser THEN Reply(404, "User not found", us)
    \* None < datetime raises TypeError: an unhandled exception, 500
    ELSE IF us[uid].reset_code_expires_at = NoTime
    THEN Reply(500, "Internal Server Error", us)
    ELSE IF reset_expired(us[uid], t) THEN Reply(400, "Reset code expired", us)
    ELSE IF reset_exhausted(us[uid]) THEN Reply(403, "Too many failed attempts", us)
    ELSE IF ~verify_password(code, us[uid].reset_code)
    THEN Reply(400, "Invalid reset code", inc_reset_attempts(us, uid))
    ELSE Reply(200, "Reset code verified", us)

\* lines 361-366: "we check again for more security"
confirm_allowed(user, t) ==
    /\ user.reset_code_expires_at # NoTime
    /\ ~reset_expired(user, t)

\* lines 370-379: replace the password hash, then $unset the reset fields
replace_password(us, uid, new_password) ==
    [us EXCEPT ![uid].password_hash = hash_password(new_password),
               ![uid].reset_code = NoHash,
               ![uid].reset_code_expires_at = NoTime,
               ![uid].reset_attempts = NoCount]

confirm_password_reset(us, email, new_password, t) ==
    LET uid == find_one_email(us, email) IN
    IF uid = NoUser THEN Reply(404, "User not found", us)
    ELSE IF ~confirm_allowed(us[uid], t) THEN Reply(400, "Reset code expired", us)
    ELSE Reply(200, "Password reset successful", replace_password(us, uid, new_password))

(***************************************************************************)
(* The document store behind the chat, billing and Google Sheets handlers. *)
(* A handler is an operator from the store and the request to a Response   *)
(* that carries the store the handler leaves behind.                       *)
(***************************************************************************)
MODEL_NAME == "mistralai/mistral-small-3.2-24b-instruct"
WELCOME_MESSAGE == "Welcome! My name is DATAX."
WAITLIST_DETAIL == "You are on the waitlist. Please wait until access is granted."
ERROR_SENTINEL == "Error processing response"

NoSession == ""     \* a sessions_collection document without a session_id
NoState == ""       \* a sessions_collection document without a state

\* uuid.uuid4() and the OAuth library's state: the n-th fresh value
uuid4(n) == "uuid-" \o ToString(n)
authorization_state(n) == "state-" \o ToString(n)

DB ==
    [ users |-> users, sessions |-> sessions, chats |-> chats,
      billing |-> billing, minted |-> minted, oauth_minted |-> oauth_minted,
      objects |-> objects, sheet_meta |-> sheet_meta,
      files |-> files, uploads |-> uploads, file_minted |-> file_minted,
      puts |-> <<>>, ingested |-> <<>> ]

Response(status, detail, body, db) ==
    [status |-> status, detail |-> detail, body |-> body, db |-> db]

\* find_one on a collection kept in natural (insertion) order
RECURSIVE first_match(_, _, _, _)
first_match(docs, field, value, i) ==
    IF i > Len(docs) THEN 0
    ELSE IF docs[i][field] = value THEN i
    ELSE first_match(docs, field, value, i + 1)

get_session(ss, session_id) == first_match(ss, "session_id", session_id, 1)

find_chat(cs, session_id) == first_match(cs, "session_id", session_id, 1)

\* a message stored without usage carries zeros
NoUsage ==
    [input_tokens |-> 0, output_tokens |-> 0, total_tokens |-> 0, final_cost_usd |-> 0]

\* save_message: push the message, creating the ChatRecord on first use
save_message(cs, session_id, role, content, usage) ==
    LET message_doc == [role |-> role, content |-> content, usage |-> usage]
        i == find_chat(cs, session_id)
    IN IF i = 0
       THEN Append(cs, [ session_id |-> session_id,
                         messages |-> <<message_doc>>,
                         stats |-> [ total_messages |-> 0, total_tokens |-> 0,
                                     total_spent_usd |-> 0 ] ])
       ELSE [cs EXCEPT ![i].messages = Append(@, message_doc)]

\* initialize_session: a new id, its Session row and its welcome message
initialize_session(db, user_id) ==
    LET session_id == uuid4(db.minted + 1)
        row == [ session_id |-> session_id, user_id |-> user_id,
                 model |-> MODEL_NAME, state |-> NoState ]
    IN [db EXCEPT !.minted = @ + 1,
                  !.sessions = Append(@, row),
                  !.chats = save_message(@, session_id, "assistant",
                                         WELCOME_MESSAGE, NoUsage)]

\* PRICING for MODEL_NAME is 0.075 / 0.20 USD per 10^6 tokens and the margin
\* is 20%: the cost is kept exact, in units of 10^-10 USD
final_cost(input_tokens, output_tokens) ==
    (input_tokens * 75 + output_tokens * 200) * 12

\* the $inc of the user's cumulative counters
inc_user_stats(us, uid, usage, cost) ==
    [us EXCEPT ![uid].stats =
        [ total_messages      |-> @.total_messages + 1,
          total_input_tokens  |-> @.total_input_tokens + usage.input_tokens,
          total_output_tokens |-> @.total_output_tokens + usage.output_tokens,
          total_tokens        |-> @.total_tokens + usage.total_tokens,
          spent_usd           |-> @.spent_usd + cost ]]

\* the $inc of the ChatRecord counters; update_one without upsert
\* the chat-level update written with "$set" in place of "$inc"
set_chat_stats(cs, session_id, total_tokens, cost) ==
    LET i == find_chat(cs, session_id) IN
    IF i = 0 THEN cs
    ELSE [cs EXCEPT ![i].stats =
            [ total_messages  |-> 2,
              total_tokens    |-> total_tokens,
              total_spent_usd |-> cost ]]

\* the chat-level update of send_message: "$inc" on the first matching record
inc_chat_stats(cs, session_id, total_tokens, cost) ==
    LET i == find_chat(cs, session_id) IN
    IF i = 0 THEN cs
    ELSE [cs EXCEPT ![i].stats =
            [ total_messages  |-> @.total_messages + 2,
              total_tokens    |-> @.total_tokens + total_tokens,
              total_spent_usd |-> @.total_spent_usd + cost ]]

billing_entry(uid, session_id, usage, cost, t) ==
    [ user_id |-> uid, session_id |-> session_id, model |-> MODEL_NAME,
      input_tokens |-> usage.input_tokens, output_tokens |-> usage.output_tokens,
      total_tokens |-> usage.total_tokens, cost_usd |-> cost, timestamp |-> t ]

\* the storage writes of a completed agent turn, in the order of the handler
TurnWrites == <<"user_stats", "user_message", "assistant_message", "chat_stats", "billing">>

\* save_message catches its own exceptions; the other writes raise into the
\* handler's try block
swallowed(write) == write \in {"user_message", "assistant_message"}

\* the usage save_message is given for the user and for the assistant message
user_usage(usage) ==
    [ input_tokens |-> usage.input_tokens, output_tokens |-> 0,
      total_tokens |-> usage.input_tokens, final_cost_usd |-> 0 ]

reply_usage(usage) ==
    [ input_tokens |-> 0, output_tokens |-> usage.output_tokens,
      total_tokens |-> usage.total_tokens,
      final_cost_usd |-> final_cost(usage.input_tokens, usage.output_tokens) ]

\* one storage write of the turn [uid, session_id, content, output, usage]
apply_write(db, turn, write, t) ==
    LET usage == turn.usage
        cost == final_cost(usage.input_tokens, usage.output_tokens)
    IN CASE write = "user_stats" ->
              [db EXCEPT !.users = inc_user_stats(@, turn.uid, usage, cost)]
         [] write = "user_message" ->
              [db EXCEPT !.chats = save_message(@, turn.session_id, "user",
                                                turn.content, user_usage(usage))]
         [] write = "assistant_message" ->
              [db EXCEPT !.chats = save_message(@, turn.session_id, "assistant",
                                                turn.output, reply_usage(usage))]
         [] write = "chat_stats" ->
              [db EXCEPT !.chats = inc_chat_stats(@, turn.session_id,
                                                  usage.total_tokens, cost)]
         [] write = "billing" ->
              [db EXCEPT !.billing = Append(@,
                  billing_entry(turn.uid, turn.session_id, usage, cost, t))]

\* the writes one after the other inside the try block: a write in faults
\* raises; a raise that is not swallowed ends the block
RECURSIVE run_writes(_, _, _, _, _)
run_writes(db, turn, writes, faults, t) ==
    IF writes = <<>> THEN [raised |-> FALSE, db |-> db]
    ELSE IF Head(writes) \notin faults
    THEN run_writes(apply_write(db, turn, Head(writes), t), turn, Tail(writes), faults, t)
    ELSE IF swallowed(Head(writes))
    THEN run_writes(db, turn, Tail(writes), faults, t)
    ELSE [raised |-> TRUE, db |-> db]

new_turn(uid, session_id, content, agent) ==
    [ uid |-> uid, session_id |-> session_id, content |-> content,
      output |-> agent.output, usage |-> agent.usage ]

record_turn(db, uid, session_id, content, agent, faults, t) ==
    run_writes(db, new_turn(uid, session_id, content, agent), TurnWrites, faults, t)

turn_reply(output, usage, cost) ==
    << [ response |-> output, input_tokens |-> usage.input_tokens,
         output_tokens |-> usage.output_tokens, total_tokens |-> usage.total_tokens,
         final_cost_usd |-> cost ] >>

\* the except branch: the sentinel reply with zero usage
error_reply(db) ==
    Response(200, ERROR_SENTINEL, turn_reply(ERROR_SENTINEL, NoUsage, 0), db)

send_message_records_throw(db, uid, session_id, content, agent, faults, t) ==
    LET db1 == IF get_session(db.sessions, session_id) = 0
               THEN initialize_session(db, uid) ELSE db
    IN IF ~db.users[uid].can_chat THEN Response(403, WAITLIST_DETAIL, <<>>, db1)
       ELSE error_reply(record_turn(db1, uid, session_id, content, agent, faults, t).db)

send_message(db, uid, session_id, content, agent, faults, t) ==
    LET user == db.users[uid]
        db1 == IF get_session(db.sessions, session_id) = 0
               THEN initialize_session(db, uid) ELSE db
        r == record_turn(db1, uid, session_id, content, agent, faults, t)
    IN IF ~user.can_chat THEN Response(403, WAITLIST_DETAIL, <<>>, db1)
       ELSE IF agent.throws THEN error_reply(db1)
       ELSE IF r.raised THEN error_reply(r.db)
       ELSE Response(200, "",
                     turn_reply(agent.output, agent.usage,
                                final_cost(agent.usage.input_tokens,
                                           agent.usage.output_tokens)),
                     r.db)

\* get_chat_history takes the session id and nothing else
get_chat_history(db, session_id) ==
    LET i == find_chat(db.chats, session_id) IN
    Response(200, "", IF i = 0 THEN <<>> ELSE db.chats[i].messages, db)

RECURSIVE of_user(_, _)
of_user(docs, uid) ==
    IF docs = <<>> THEN <<>>
    ELSE IF Head(docs).user_id = uid THEN <<Head(docs)>> \o of_user(Tail(docs), uid)
    ELSE of_user(Tail(docs), uid)

RECURSIVE sum_field(_, _)
sum_field(docs, field) ==
    IF docs = <<>> THEN 0 ELSE Head(docs)[field] + sum_field(Tail(docs), field)

get_billing_summary(db, uid) ==
    LET mine == of_user(db.billing, uid) IN
    Response(200, "",
             << [ total_tokens |-> sum_field(mine, "total_tokens"),
                  total_cost |-> sum_field(mine, "cost_usd"),
                  sessions |-> {mine[i].session_id : i \in 1..Len(mine)} ] >>,
             db)

RECURSIVE newest_first(_)
newest_first(docs) ==
    IF docs = <<>> THEN <<>> ELSE Append(newest_first(Tail(docs)), Head(docs))

get_billing_history(db, uid) ==
    Response(200, "", newest_first(of_user(db.billing, uid)), db)

(***************************************************************************)
(* Google Sheets: connect stores the anti-forgery state, exchange checks   *)
(* it, trades the code, saves the credentials and ingests the sheets.      *)
(***************************************************************************)
first_of_user(ss, uid) == first_match(ss, "user_id", uid, 1)

\* update_one({"user_id": ...}, {"$set": {"state": ...}}, upsert=True)
store_state(ss, uid, state) ==
    LET i == first_of_user(ss, uid) IN
    IF i = 0
    THEN Append(ss, [ session_id |-> NoSession, user_id |-> uid,
                      model |-> "", state |-> state ])
    ELSE [ss EXCEPT ![i].state = state]

connect_google_sheets(db, uid) ==
    LET state == authorization_state(db.oauth_minted + 1) IN
    Response(200, "", << [auth_url |-> "auth_url", state |-> state] >>,
             [db EXCEPT !.oauth_minted = @ + 1,
                        !.sessions = store_state(@, uid, state)])

\* find_one({"user_id": ...}).get("state")
stored_state(ss, uid) ==
    LET i == first_of_user(ss, uid) IN
    IF i = 0 THEN NoState ELSE ss[i].state

state_rejected(ss, uid, state) ==
    stored_state(ss, uid) = NoState \/ state # stored_state(ss, uid)

clear_state_keep(ss, uid) == ss

\* delete_one({"user_id": ...})
clear_state(ss, uid) ==
    LET i == first_of_user(ss, uid) IN
    IF i = 0 THEN ss
    ELSE SubSeq(ss, 1, i - 1) \o SubSeq(ss, i + 1, Len(ss))

flow_credentials(code) == "token-for-" \o code

save_credentials(us, uid, credentials) ==
    [us EXCEPT ![uid].google_credentials = credentials]

object_name(user_id, sheet_id) == <<user_id, sheet_id>>

\* the metadata write as an insert_one
insert_meta(rows, meta) == Append(rows, meta)

\* db["spreadsheet_metadata"].update_one({owner_id, sheet_id}, {"$set": meta}, upsert)
RECURSIVE upsert_meta(_, _)
upsert_meta(rows, meta) ==
    IF rows = <<>> THEN <<meta>>
    ELSE IF Head(rows).owner_id = meta.owner_id /\ Head(rows).sheet_id = meta.sheet_id
    THEN <<meta>> \o Tail(rows)
    ELSE <<Head(rows)>> \o upsert_meta(Tail(rows), meta)

\* ingest_sheet: the put, then the metadata row; a failed put raises.
\* db.puts and db.ingested record what this request did: the fput_object
\* calls with their outcome, and the meta documents ingest_sheet returned.
ingest_sheet(db, user_id, sheet_id, put_ok, t) ==
    LET object == object_name(user_id, sheet_id)
        meta == [ owner_id |-> user_id, sheet_id |-> sheet_id,
                  object_name |-> object, updated_at |-> t ]
        tried == [db EXCEPT !.puts = Append(@, [object |-> object, ok |-> put_ok])]
    IN IF ~put_ok THEN [raised |-> TRUE, db |-> tried]
       ELSE [ raised |-> FALSE,
              db |-> [tried EXCEPT
                       !.objects = @ \cup {object},
                       !.sheet_meta = upsert_meta(@, meta),
                       !.ingested = Append(@, meta)] ]

\* the loop over the Drive listing: a sheet whose values cannot be read is
\* skipped, a sheet whose put fails ends the loop with the exception
RECURSIVE ingest_listing(_, _, _, _)
ingest_listing(db, uid, listing, t) ==
    IF listing = <<>> THEN [raised |-> FALSE, db |-> db]
    ELSE IF Head(listing).result = "values_failed"
    THEN ingest_listing(db, uid, Tail(listing), t)
    ELSE LET r == ingest_sheet(db, uid, Head(listing).sheet_id,
                               Head(listing).result = "ok", t) IN
         IF r.raised THEN r ELSE ingest_listing(r.db, uid, Tail(listing), t)

\* ---- uploaded files (file_router.py)
STORAGE_MINIO_BUCKET_UPLOADS == "uploads"
NoField == ""     \* a field the document does not carry

\* an uploaded file's name: its stem and its extension
Filenames == { <<"data", ".csv">>, <<"book", ".xlsx">>, <<"notes", ".txt">> }

\* file.filename.endswith(".csv") or file.filename.endswith(".xlsx")
supported(filename) == filename[Len(filename)] \in {".csv", ".xlsx"}

\* the ObjectId that insert_one gives the n-th metadata row
ObjectId(n) == "oid-" \o ToString(n)
INVALID_FILE_ID == "not-an-object-id"

\* f"{user_id}/{file_id}"
upload_object_name(user_id, file_id) == ToString(user_id) \o "/" \o file_id

\* f"http://{STORAGE_MINIO_ENDPOINT}/{STORAGE_MINIO_BUCKET_UPLOADS}/{object_name}"
upload_url(object) == "http://minio/" \o STORAGE_MINIO_BUCKET_UPLOADS \o "/" \o object

\* the step of upload_file at which the storage fails, if any
UploadOutcomes == {"ok", "insert_failed", "put_failed", "update_failed"}

\* find_one({"_id": ..., "user_id": ...}) on file_collection
RECURSIVE find_file(_, _, _, _)
find_file(rows, file_id, user_id, i) ==
    IF i > Len(rows) THEN 0
    ELSE IF rows[i]._id = file_id /\ rows[i].user_id = user_id THEN i
    ELSE find_file(rows, file_id, user_id, i + 1)

\* upload_file writing the whole metadata row, storage fields included, before
\* the put
upload_file_eager(db, user_id, filename, storage) ==
    LET file_id == ObjectId(db.file_minted + 1)
        object == upload_object_name(user_id, file_id)
        metadata == [ _id |-> file_id, user_id |-> user_id, filename |-> filename,
                      bucket |-> STORAGE_MINIO_BUCKET_UPLOADS,
                      object_name |-> object, url |-> upload_url(object) ]
        db1 == [db EXCEPT !.file_minted = @ + 1, !.files = Append(@, metadata)]
        db2 == [db1 EXCEPT !.uploads = @ \cup {object}]
    IN IF ~supported(filename)
       THEN Response(422, "Only CSV and Excel (.csv, .xlsx) files are supported.",
                     <<>>, db)
       ELSE IF storage = "insert_failed" THEN Response(500, "insert_one", <<>>, db)
       ELSE IF storage = "put_failed" THEN Response(500, "fput_object", <<>>, db1)
       ELSE Response(200, "File uploaded and metadata stored successfully",
                     <<[file_id |-> file_id,
                        metadata |-> [object_name |-> object, url |-> upload_url(object)]]>>,
                     db2)

\* upload_file: type check, base metadata row, put, then the storage fields;
\* every exception but the 422 becomes a 500
upload_file(db, user_id, filename, storage) ==
    LET file_id == ObjectId(db.file_minted + 1)
        object == upload_object_name(user_id, file_id)
        base_metadata == [ _id |-> file_id, user_id |-> user_id,
                           filename |-> filename,
                           bucket |-> STORAGE_MINIO_BUCKET_UPLOADS,
                           object_name |-> NoField, url |-> NoField ]
        update_data == [object_name |-> object, url |-> upload_url(object)]
        db1 == [db EXCEPT !.file_minted = @ + 1,
                          !.files = Append(@, base_metadata)]
        db2 == [db1 EXCEPT !.uploads = @ \cup {object}]
        db3 == [db2 EXCEPT !.files[Len(db1.files)].object_name = update_data.object_name,
                           !.files[Len(db1.files)].url = update_data.url]
    IN IF ~supported(filename)
       THEN Response(422, "Only CSV and Excel (.csv, .xlsx) files are supported.",
                     <<>>, db)
       ELSE IF storage = "insert_failed" THEN Response(500, "insert_one", <<>>, db)
       ELSE IF storage = "put_failed" THEN Response(500, "fput_object", <<>>, db1)
       ELSE IF storage = "update_failed" THEN Response(500, "update_one", <<>>, db2)
       ELSE Response(200, "File uploaded and metadata stored successfully",
                     <<[file_id |-> file_id, metadata |-> update_data]>>, db3)

\* remove_object: done, S3Error, or another exception (no connection)
RemoveOutcomes == {"ok", "S3Error", "error"}
\* delete_one: done, or an exception
DeleteOutcomes == {"ok", "failed"}

remove_row(rows, i) == SubSeq(rows, 1, i - 1) \o SubSeq(rows, i + 1, Len(rows))

\* delete_file answering by the metadata deletion alone
deletion_reply_by_row(minio_deleted, mongo_deleted, file_id, db) ==
    IF mongo_deleted
    THEN Response(200, "File deleted successfully", <<[fileId |-> file_id]>>, db)
    ELSE Response(500, "File deletion failed unexpectedly", <<>>, db)

\* the responses of delete_file after both removals were tried
deletion_reply(minio_deleted, mongo_deleted, file_id, db) ==
    IF ~mongo_deleted /\ minio_deleted
    THEN Response(500, "File deleted from MinIO but not MongoDB (rollback not possible)",
                  <<>>, db)
    ELSE IF ~minio_deleted /\ mongo_deleted
    THEN Response(200, "File metadata deleted, but MinIO object was missing",
                  <<[fileId |-> file_id, warning |-> "MinIO object not found"]>>, db)
    ELSE IF mongo_deleted /\ minio_deleted
    THEN Response(200, "File deleted successfully", <<[fileId |-> file_id]>>, db)
    ELSE Response(500, "File deletion failed unexpectedly", <<>>, db)

\* delete_file: the object first, the metadata row second
delete_file(db, user_id, file_id, minio, mongo) ==
    LET i == find_file(db.files, file_id, user_id, 1) IN
    IF file_id = INVALID_FILE_ID THEN Response(400, "Invalid file ID", <<>>, db)
    ELSE IF i = 0 THEN Response(404, "File not found", <<>>, db)
    ELSE IF db.files[i].bucket = NoField \/ db.files[i].object_name = NoField
    THEN Response(500, "File metadata missing required fields", <<>>, db)
    ELSE IF minio = "error" THEN Response(500, "Internal Server Error", <<>>, db)
    ELSE LET minio_deleted == minio = "ok"
             mongo_deleted == mongo = "ok"
             db1 == IF minio_deleted
                    THEN [db EXCEPT !.uploads = @ \ {db.files[i].object_name}]
                    ELSE db
             db2 == IF mongo_deleted
                    THEN [db1 EXCEPT !.files = remove_row(@, i)]
                    ELSE db1
         IN deletion_reply(minio_deleted, mongo_deleted, file_id, db2)

\* what the exchange handler tells about the provider: was the code traded
provider_called(called) == << [fetch_token |-> called] >>

exchange_code_and_ingest(db, uid, state, code, provider, t) ==
    IF state_rejected(db.sessions, uid, state)
    THEN Response(400, "Invalid state", provider_called(FALSE), db)
    ELSE IF provider.step = "token_failed"
    THEN Response(400, "Failed to exchange code", provider_called(TRUE), db)
    ELSE IF provider.step = "userinfo_failed"
    THEN Response(401, "Failed to fetch user info", provider_called(TRUE), db)
    ELSE LET db1 == [db EXCEPT !.users =
                        save_credentials(@, uid, flow_credentials(code))]
             r == ingest_listing(db1, uid, provider.listing, t)
         IN IF provider.step = "listing_failed"
            THEN Response(500, "Failed to ingest sheets", provider_called(TRUE), db1)
            ELSE IF r.raised
            THEN Response(500, "Failed to ingest sheets", provider_called(TRUE), r.db)
            ELSE Response(200, "Google Sheets connected and ingested successfully",
                          provider_called(TRUE),
                          [r.db EXCEPT !.sessions = clear_state(@, uid)])

----------------------------------------------------------------------------
\* The requests, one action per handler

\* op: the handler; uid: the user get_current_user authenticated (NoUser for
\* the open endpoints); arg: the request body; status, detail: the response
Served(op, token, uid, arg, r) ==
    last' = [op |-> op, token |-> token, uid |-> uid, arg |-> arg,
             status |-> r.status, detail |-> r.detail,
             body |-> IF "body" \in DOMAIN r THEN r.body ELSE <<>>]

\* get_current_user raised 401: the handler body never runs
Unauthorized(op, token) ==
    /\ last' = [op |-> op, token |-> token, uid |-> NoUser, arg |-> "",
                status |-> 401, detail |-> "Invalid token", body |-> <<>>]
    /\ UNCHANGED <<users, issued, now, inflight, storeVars>>

\* a 200 response of the auth handlers carries a fresh token for uid
Issue(uid, r) ==
    issued' = IF r.status = 200 /\ uid # NoUser
              THEN [issued EXCEPT ![uid] = now + ACCESS_TOKEN_EXPIRE_MINUTES]
              ELSE issued

Signup ==
    \E email \in Emails, password \in Passwords, code \in Codes, mail_ok \in BOOLEAN :
        LET r == signup(users, email, password, code, mail_ok, now) IN
        /\ users' = r.users
        /\ issued' = IF r.status = 200
                     THEN Append(issued, now + ACCESS_TOKEN_EXPIRE_MINUTES)
                     ELSE issued
        /\ Served("signup", NoToken, NoUser, email, r)
        /\ UNCHANGED <<now, inflight, storeVars>>

Login ==
    \E email \in Emails \cup {UnknownEmail}, password \in Passwords :
        LET r == login(users, email, password, now)
            uid == find_one_email(users, email) IN
        /\ users' = r.users
        /\ Issue(uid, r)
        /\ Served("login", NoToken, NoUser, <<email, password>>, r)
        /\ UNCHANGED <<now, inflight, storeVars>>

Verify ==
    \E token \in Tokens, code \in Codes :
        LET g == get_current_user(users, token, now) IN
        IF g.status # 200 THEN Unauthorized("verify", token)
        ELSE LET email == users[g.uid].email
                 r == verify_user(users, email, code, now) IN
             /\ users' = r.users
             /\ Issue(find_one_email(users, email), r)
             /\ Served("verify", token, g.uid, code, r)
             /\ UNCHANGED <<now, inflight, storeVars>>

RequestPasswordReset ==
    \E email \in Emails \cup {UnknownEmail}, code \in Codes, mail_ok \in BOOLEAN :
        LET r == request_password_reset(users, email, code, mail_ok, now)
            uid == find_one_email(users, email) IN
        /\ users' = r.users
        \* the token is created before the update and returned only with the 200
        /\ Issue(uid, r)
        /\ Served("request_password_reset", NoToken, NoUser, email, r)
        /\ UNCHANGED <<now, inflight, storeVars>>

CheckResetCode ==
    \E token \in Tokens, code \in Codes :
        LET g == get_current_user(users, token, now) IN
        IF g.status # 200 THEN Unauthorized("check_reset_code", token)
        ELSE LET email == users[g.uid].email
                 r == check_reset_code(users, email, code, now) IN
             /\ users' = r.users
             /\ Issue(find_one_email(users, email), r)
             /\ Served("check_reset_code", token, g.uid, code, r)
             /\ UNCHANGED <<now, inflight, storeVars>>

ConfirmPasswordReset ==
    \E token \in Tokens, new_password \in Passwords :
        LET g == get_current_user(users, token, now) IN
        IF g.status # 200 THEN Unauthorized("confirm_password_reset", token)
        ELSE LET email == users[g.uid].email
                 r == confirm_password_reset(users, email, new_password, now) IN
             /\ users' = r.users
             /\ Issue(find_one_email(users, email), r)
             /\ Served("confirm_password_reset", token, g.uid, new_password, r)
             /\ UNCHANGED <<now, inflight, storeVars>>

\* time passes
\* the handler's writes reach the store
Commit(db) ==
    /\ users' = db.users
    /\ sessions' = db.sessions
    /\ chats' = db.chats
    /\ billing' = db.billing
    /\ minted' = db.minted
    /\ oauth_minted' = db.oauth_minted
    /\ objects' = db.objects
    /\ sheet_meta' = db.sheet_meta
    /\ files' = db.files
    /\ uploads' = db.uploads
    /\ file_minted' = db.file_minted

\* the session ids a client can send: the ids minted so far and one of its own
SessionIds == {uuid4(n) : n \in 1..minted} \cup {CLIENT_SESSION_ID}

\* what the agent invocation does: it throws, or it returns with usage
\* metadata (possibly none)
AgentOutcomes ==
    { [ throws |-> TRUE, output |-> "",
        usage |-> [input_tokens |-> 0, output_tokens |-> 0, total_tokens |-> 0] ],
      [ throws |-> FALSE, output |-> "42 rows",
        usage |-> [input_tokens |-> 0, output_tokens |-> 0, total_tokens |-> 0] ],
      [ throws |-> FALSE, output |-> "42 rows",
        usage |-> [input_tokens |-> 3, output_tokens |-> 2, total_tokens |-> 5] ] }

\* the agent is invoked, and has an outcome, only behind the waitlist check
InvokedOutcomes(uid) ==
    IF users[uid].can_chat THEN AgentOutcomes
    ELSE {[throws |-> TRUE, output |-> "", usage |-> NoUsage]}

\* the storage writes of this turn that fail: at most MaxFaults of them, and
\* none when the agent threw and no write is reached
Faults(agent) ==
    IF agent.throws THEN {{}}
    ELSE {f \in SUBSET {TurnWrites[i] : i \in 1..Len(TurnWrites)} :
            Cardinality(f) <= MaxFaults}

\* a turn whose writes all ran inside the handler
\* pre_model_hook: the messages of the thread that are passed to the model
pre_model_hook(messages) ==
    IF Len(messages) > 10
    THEN SubSeq(messages, Len(messages) - 4, Len(messages))
    ELSE messages

\* request.session.get("user_id"): the cookie session of SessionMiddleware;
\* no handler writes a "user_id" into it, so the lookup gives None
request_session_user == NoUser

\* make_wrapped_tools: the user id that every tool of the agent is closed over
make_wrapped_tools(session_user) == session_user

finished_turn(uid, session_id, content, agent, faults) ==
    [ uid |-> uid, session_id |-> session_id, content |-> content,
      output |-> agent.output, usage |-> agent.usage, faults |-> faults,
      tool_user |-> make_wrapped_tools(request_session_user),
      todo |-> <<>>, raised |-> FALSE ]

SendMessage ==
    \E token \in Tokens :
        LET g == get_current_user(users, token, now) IN
        IF g.status # 200 THEN Unauthorized("send_message", token)
        ELSE \E session_id \in SessionIds, content \in Contents,
                agent \in InvokedOutcomes(g.uid) :
             LET returned == users[g.uid].can_chat /\ ~agent.throws IN
             /\ get_session(sessions, session_id) = 0 => minted < MaxSessions
             /\ returned => Len(turns) < MaxTurns
             /\ \E faults \in Faults(agent) :
                \E r \in {send_message(DB, g.uid, session_id, content, agent, faults, now)} :
                /\ Commit(r.db)
                /\ turns' = IF returned
                            THEN Append(turns, finished_turn(g.uid, session_id, content,
                                                             agent, faults))
                            ELSE turns
                /\ Served("send_message", token, g.uid, session_id, r)
                /\ UNCHANGED <<issued, now, inflight, oauth_log>>

\* get_chat_history declares no dependency on get_current_user: whatever
\* Authorization header the request carries is never looked at
GetChatHistory ==
    \E token \in Tokens \cup {NoToken}, session_id \in SessionIds :
        \E r \in {get_chat_history(DB, session_id)} :
        /\ Commit(r.db)
        /\ Served("get_chat_history", token, NoUser, session_id, r)
        /\ UNCHANGED <<issued, now, inflight, oauth_log, turns>>

GetBillingSummary ==
    \E token \in Tokens :
        LET g == get_current_user(users, token, now) IN
        IF g.status # 200 THEN Unauthorized("get_billing_summary", token)
        ELSE \E r \in {get_billing_summary(DB, g.uid)} :
             /\ Commit(r.db)
             /\ Served("get_billing_summary", token, g.uid, "", r)
             /\ UNCHANGED <<issued, now, inflight, oauth_log, turns>>

GetBillingHistory ==
    \E token \in Tokens :
        LET g == get_current_user(users, token, now) IN
        IF g.status # 200 THEN Unauthorized("get_billing_history", token)
        ELSE \E r \in {get_billing_history(DB, g.uid)} :
             /\ Commit(r.db)
             /\ Served("get_billing_history", token, g.uid, "", r)
             /\ UNCHANGED <<issued, now, inflight, oauth_log, turns>>

ConnectGoogleSheets ==
    \E token \in Tokens :
        LET g == get_current_user(users, token, now) IN
        IF g.status # 200 THEN Unauthorized("connect_google_sheets", token)
        ELSE \E r \in {connect_google_sheets(DB, g.uid)} :
             /\ oauth_minted < MaxStates
             /\ Commit(r.db)
             /\ oauth_log' = [oauth_log EXCEPT !.handed =
                    {h \in @ : h[1] # g.uid} \cup {<<g.uid, r.body[1].state>>}]
             /\ Served("connect_google_sheets", token, g.uid, "", r)
             /\ UNCHANGED <<issued, now, inflight, turns>>

\* the states a client can send: the ones handed out so far, one it made up,
\* and none
States == {authorization_state(n) : n \in 1..oauth_minted} \cup {FORGED_STATE, NoState}

\* a Drive listing names each spreadsheet of the account at most once
Listings ==
    LET entries == [sheet_id : SheetIds, result : {"ok", "values_failed", "put_failed"}]
        distinct(l) == \A i, j \in 1..Len(l) : l[i].sheet_id = l[j].sheet_id => i = j
    IN { l \in UNION {[1..n -> entries] : n \in 0..Cardinality(SheetIds)} : distinct(l) }

\* what Google does with this exchange
ProviderOutcomes ==
    { [step |-> s, listing |-> <<>>] :
        s \in {"token_failed", "userinfo_failed", "listing_failed"} }
    \cup { [step |-> "listed", listing |-> l] : l \in Listings }

\* the provider is contacted, and has an outcome, only behind the state check
ContactedOutcomes(uid, state) ==
    IF state_rejected(sessions, uid, state)
    THEN {[step |-> "not_contacted", listing |-> <<>>]}
    ELSE ProviderOutcomes

ExchangeCode ==
    \E token \in Tokens :
        LET g == get_current_user(users, token, now) IN
        IF g.status # 200 THEN Unauthorized("exchange_code_and_ingest", token)
        ELSE \E state \in States, code \in GoogleCodes :
             \E provider \in ContactedOutcomes(g.uid, state) :
             \E r \in {exchange_code_and_ingest(DB, g.uid, state, code, provider, now)} :
             /\ Commit(r.db)
             /\ oauth_log' = [oauth_log EXCEPT
                    !.consumed = IF r.status # 200 THEN @ ELSE @ \cup {<<g.uid, state>>},
                    !.puts = r.db.puts,
                    !.ingested = r.db.ingested]
             /\ Served("exchange_code_and_ingest", token, g.uid, state, r)
             /\ UNCHANGED <<issued, now, inflight, turns>>

FileIds == {ObjectId(n) : n \in 1..file_minted} \cup {INVALID_FILE_ID}

\* the storage is used, and has an outcome, only behind the file type check
StorageOutcomes(filename) ==
    IF supported(filename) THEN UploadOutcomes ELSE {"ok"}

\* the object store is called only for a row of the caller that names an
\* object, and the database deletion only when that call did not abort
removal_reached(uid, file_id) ==
    LET i == find_file(files, file_id, uid, 1) IN
    /\ i # 0
    /\ files[i].bucket # NoField
    /\ files[i].object_name # NoField

RemovalOutcomes(uid, file_id) ==
    IF removal_reached(uid, file_id) THEN RemoveOutcomes ELSE {"ok"}

DeletionOutcomes(uid, file_id, minio) ==
    IF removal_reached(uid, file_id) /\ minio # "error" THEN DeleteOutcomes ELSE {"ok"}

UploadFile ==
    \E token \in Tokens :
        LET g == get_current_user(users, token, now) IN
        IF g.status # 200 THEN Unauthorized("upload_file", token)
        ELSE \E filename \in Filenames :
             /\ file_minted < MaxFiles
             /\ \E storage \in StorageOutcomes(filename) :
                \E r \in {upload_file(DB, g.uid, filename, storage)} :
                /\ Commit(r.db)
                /\ Served("upload_file", token, g.uid, ObjectId(file_minted + 1), r)
                /\ UNCHANGED <<issued, now, inflight, oauth_log, turns>>

DeleteFile ==
    \E token \in Tokens :
        LET g == get_current_user(users, token, now) IN
        IF g.status # 200 THEN Unauthorized("delete_file", token)
        ELSE \E file_id \in FileIds :
             \E minio \in RemovalOutcomes(g.uid, file_id) :
             \E mongo \in DeletionOutcomes(g.uid, file_id, minio) :
             \E r \in {delete_file(DB, g.uid, file_id, minio, mongo)} :
             /\ Commit(r.db)
             /\ Served("delete_file", token, g.uid, file_id, r)
             /\ UNCHANGED <<issued, now, inflight, oauth_log, turns>>

\* Concurrent send_message requests: the handlers run in the worker threads
\* of the server, so the storage writes of two turns interleave. BeginTurn is
\* the handler up to the return of the agent; WriteTurn is its next write.
BeginTurn ==
    \E token \in Tokens :
        LET g == get_current_user(users, token, now) IN
        /\ g.status = 200
        /\ users[g.uid].can_chat
        /\ Len(turns) < MaxRacing
        /\ \E session_id \in SessionIds, content \in Contents,
              agent \in {a \in AgentOutcomes : ~a.throws} :
           \E db1 \in {IF get_session(sessions, session_id) = 0
                        THEN initialize_session(DB, g.uid) ELSE DB} :
           /\ Commit(db1)
           /\ turns' = Append(turns,
                   [ finished_turn(g.uid, session_id, content, agent, {})
                       EXCEPT !.todo = TurnWrites ])
           /\ last' = [op |-> "begin_turn", token |-> token, uid |-> g.uid,
                       arg |-> session_id, status |-> 0, detail |-> "", body |-> <<>>]
           /\ UNCHANGED <<issued, now, inflight, oauth_log>>

\* update_one(..., upsert=True) that matched no document inserts one; two such
\* updates that both matched nothing both insert
insert_chat(cs, session_id, role, content, usage) ==
    cs \o save_message(<<>>, session_id, role, content, usage)

\* the next storage write of an in-flight turn. A save_message that finds no
\* ChatRecord takes two steps: the match that finds nothing, then the insert.
WriteTurn ==
    \E k \in 1..Len(turns) :
        LET turn == turns[k]
            write == Head(turn.todo)
            missing == find_chat(chats, turn.session_id) = 0
            message == IF write = "user_message"
                       THEN [role |-> "user", content |-> turn.content,
                             usage |-> user_usage(turn.usage)]
                       ELSE [role |-> "assistant", content |-> turn.output,
                             usage |-> reply_usage(turn.usage)]
        IN
        /\ turn.todo # <<>>
        /\ IF swallowed(write) /\ missing /\ ~turn.raised
           THEN /\ turns' = [turns EXCEPT ![k].raised = TRUE]
                /\ UNCHANGED <<users, sessions, chats, billing, minted, oauth_minted,
                               objects, sheet_meta, files, uploads, file_minted>>
           ELSE IF swallowed(write) /\ turn.raised
           THEN /\ chats' = insert_chat(chats, turn.session_id, message.role,
                                        message.content, message.usage)
                /\ turns' = [turns EXCEPT ![k].raised = FALSE, ![k].todo = Tail(@)]
                /\ UNCHANGED <<users, sessions, billing, minted, oauth_minted,
                               objects, sheet_meta, files, uploads, file_minted>>
           ELSE /\ Commit(apply_write(DB, turn, write, now))
                /\ turns' = [turns EXCEPT ![k].todo = Tail(@)]
        /\ last' = [op |-> "write_turn", token |-> NoToken, uid |-> turn.uid,
                    arg |-> write, status |-> 0, detail |-> "", body |-> <<>>]
        /\ UNCHANGED <<issued, now, inflight, oauth_log>>

\* the waiting list is left out of band: an operator of the service sets
\* can_chat on the user document
GrantChat ==
    \E uid \in 1..Len(users) :
        /\ ~users[uid].can_chat
        /\ users' = [users EXCEPT ![uid].can_chat = TRUE]
        /\ last' = [op |-> "grant_chat", token |-> NoToken, uid |-> uid, arg |-> "",
                    status |-> 0, detail |-> "", body |-> <<>>]
        /\ UNCHANGED <<issued, now, inflight, storeVars>>

Advance(ticks, minutes) ==
    /\ now < ticks * minutes
    /\ now' = now + minutes
    /\ last' = [op |-> "tick", token |-> NoToken, uid |-> NoUser, arg |-> "",
                status |-> 0, detail |-> "", body |-> <<>>]
    /\ UNCHANGED <<users, issued, inflight, storeVars>>

Tick == Advance(MaxTicks, TickMinutes)

\* the clock of the flows that outlive a bearer token
LongTick == Advance(GateTicks, GateMinutes)

\* no document and no object has been written yet
EmptyStore ==
    /\ sessions = <<>>
    /\ chats = <<>>
    /\ billing = <<>>
    /\ minted = 0
    /\ oauth_minted = 0
    /\ objects = {}
    /\ sheet_meta = <<>>
    /\ oauth_log = [handed |-> {}, consumed |-> {}, puts |-> <<>>, ingested |-> <<>>]
    /\ files = <<>>
    /\ uploads = {}
    /\ file_minted = 0
    /\ turns = <<>>

Init ==
    /\ users = <<>>
    /\ issued = <<>>
    /\ now = 0
    /\ inflight = <<>>
    /\ last = [op |-> "init", token |-> NoToken, uid |-> NoUser, arg |-> "",
               status |-> 0, detail |-> "", body |-> <<>>]
    /\ EmptyStore

\* The OTP and password-reset flows of one account
Next ==
    \/ Signup
    \/ Verify
    \/ RequestPasswordReset
    \/ CheckResetCode
    \/ ConfirmPasswordReset
    \/ Tick

Spec == Init /\ [][Next]_vars

\* Signup, verification and login
NextLogin ==
    \/ Signup
    \/ Verify
    \/ Login
    \/ Tick

SpecLogin == Init /\ [][NextLogin]_vars

\* the protected operations over the lifetime of a bearer token
NextGate ==
    \/ Signup
    \/ GrantChat
    \/ SendMessage
    \/ GetChatHistory
    \/ GetBillingSummary
    \/ GetBillingHistory
    \/ LongTick

SpecGate == Init /\ [][NextGate]_vars

\* Google Sheets: two accounts that signed up at time 0, their chat
\* sessions, and the connect / exchange steps
signed_up(emails) ==
    LET first == signup(<<>>, emails[1], "pw123456", "123456", TRUE, 0)
    IN signup(first.users, emails[2], "hunter2", "000000", TRUE, 0).users

InitGoogle ==
    /\ users = signed_up(GoogleAccounts)
    /\ issued = [u \in 1..Len(GoogleAccounts) |-> create_access_token(u, 0).exp]
    /\ now = 0
    /\ inflight = <<>>
    /\ last = [op |-> "init", token |-> NoToken, uid |-> NoUser, arg |-> "",
               status |-> 0, detail |-> "", body |-> <<>>]
    /\ EmptyStore

NextGoogle ==
    \/ SendMessage
    \/ ConnectGoogleSheets
    \/ ExchangeCode

SpecGoogle == InitGoogle /\ [][NextGoogle]_vars

\* Chat: one account that signed up at time 0, is let off the waiting
\* list, and sends messages whose storage writes may fail
InitChat ==
    /\ users = signup(<<>>, GoogleAccounts[1], "pw123456", "123456", TRUE, 0).users
    /\ issued = <<create_access_token(1, 0).exp>>
    /\ now = 0
    /\ inflight = <<>>
    /\ last = [op |-> "init", token |-> NoToken, uid |-> NoUser, arg |-> "",
               status |-> 0, detail |-> "", body |-> <<>>]
    /\ EmptyStore

NextChat ==
    \/ GrantChat
    \/ SendMessage
    \/ GetBillingSummary

SpecChat == InitChat /\ [][NextChat]_vars

\* two accounts ingesting their sheets again and again while time passes
NextIngest ==
    \/ ConnectGoogleSheets
    \/ ExchangeCode
    \/ Tick

SpecIngest == InitGoogle /\ [][NextIngest]_vars

\* the thread of an agent grows by a message and the model is called on it
ModelCall ==
    \E role \in {"user", "assistant"}, content \in Contents :
        LET thread == IF last.op = "pre_model_hook" THEN last.arg ELSE <<>>
            messages == Append(thread, [role |-> role, content |-> content])
        IN /\ Len(messages) <= MaxThread
           /\ last' = [op |-> "pre_model_hook", token |-> NoToken, uid |-> NoUser,
                       arg |-> messages, status |-> 0, detail |-> "",
                       body |-> pre_model_hook(messages)]
           /\ UNCHANGED <<users, issued, now, inflight, storeVars>>

NextHook == ModelCall

SpecHook == InitChat /\ [][NextHook]_vars

\* two accounts chatting and reading chats and bills on the same store
NextShared ==
    \/ GrantChat
    \/ SendMessage
    \/ GetChatHistory
    \/ GetBillingHistory

SpecShared == InitGoogle /\ [][NextShared]_vars

\* one account storing objects both ways: uploads and sheet ingests
NextPuts ==
    \/ UploadFile
    \/ ConnectGoogleSheets
    \/ ExchangeCode

SpecPuts == InitChat /\ [][NextPuts]_vars

\* two accounts uploading and deleting files
NextFiles ==
    \/ UploadFile
    \/ DeleteFile

SpecFiles == InitGoogle /\ [][NextFiles]_vars

\* the same account with several send_message requests in flight
NextTurns ==
    \/ GrantChat
    \/ BeginTurn
    \/ WriteTurn

SpecTurns == InitChat /\ [][NextTurns]_vars

----------------------------------------------------------------------------
\* Signup as two steps, for requests served by different worker processes:
\* the find_one of one request can run between the find_one and the
\* insert_one of another (users_collection has no unique index on email).

SignupCheck ==
    \E email \in Emails, password \in Passwords, code \in Codes :
        /\ Len(inflight) < MaxInflight
        /\ IF email_registered(users, email)
           THEN /\ Served("signup", NoToken, NoUser, email,
                          Reply(400, "Email already registered", users))
                /\ UNCHANGED inflight
           ELSE /\ inflight' = Append(inflight,
                        [email |-> email, password |-> password, code |-> code])
                /\ last' = [op |-> "signup_check", token |-> NoToken, uid |-> NoUser,
                            arg |-> email, status |-> 0, detail |-> "", body |-> <<>>]
        /\ UNCHANGED <<users, issued, now, storeVars>>

SignupInsert ==
    \E i \in 1..Len(inflight), mail_ok \in BOOLEAN :
        LET q == inflight[i]
            r == signup_insert(users, q.email, q.password, q.code, mail_ok, now) IN
        /\ inflight' = SubSeq(inflight, 1, i - 1) \o SubSeq(inflight, i + 1, Len(inflight))
        /\ users' = r.users
        /\ issued' = IF r.status = 200
                     THEN Append(issued, now + ACCESS_TOKEN_EXPIRE_MINUTES)
                     ELSE issued
        /\ Served("signup", NoToken, NoUser, q.email, r)
        /\ UNCHANGED <<now, storeVars>>

\* Verify as two steps, for requests served by different worker threads: the
\* find_one of one request can run between the find_one of another and its
\* update_one. The checks are made on the document that was read; the
\* update_one ("$inc" or "$set") applies to the document as it is then.
VerifyRead ==
    \E token \in Tokens :
        LET g == get_current_user(users, token, now) IN
        IF g.status # 200 THEN Unauthorized("verify", token)
        ELSE \E code \in Codes :
             /\ Len(inflight) < MaxInflight
             /\ inflight' = Append(inflight,
                     [token |-> token, uid |-> g.uid, code |-> code, user |-> users[g.uid]])
             /\ last' = [op |-> "verify_read", token |-> token, uid |-> g.uid,
                         arg |-> code, status |-> 0, detail |-> "", body |-> <<>>]
             /\ UNCHANGED <<users, issued, now, storeVars>>

\* the update_one of a verify_user that decided r on the document it had read
verify_write(us, uid, r, t) ==
    IF r.status = 200 THEN set_verified(us, uid, t)
    ELSE IF r.detail = "Invalid verification code"
    THEN [us EXCEPT ![uid].otp_attempts = @ + 1]
    ELSE us

VerifyWrite ==
    \E i \in 1..Len(inflight) :
        LET q == inflight[i]
            r == verify_user([users EXCEPT ![q.uid] = q.user], q.user.email, q.code, now)
        IN
        /\ inflight' = SubSeq(inflight, 1, i - 1) \o SubSeq(inflight, i + 1, Len(inflight))
        /\ users' = verify_write(users, q.uid, r, now)
        /\ Issue(q.uid, r)
        /\ Served("verify", q.token, q.uid, q.code, r)
        /\ UNCHANGED <<now, storeVars>>

NextVerifyRace ==
    \/ VerifyRead
    \/ VerifyWrite

SpecVerifyRace == InitChat /\ [][NextVerifyRace]_vars

NextSignupRace ==
    \/ SignupCheck
    \/ SignupInsert
    \/ Verify
    \/ Tick

SpecSignupRace == Init /\ [][NextSignupRace]_vars

----------------------------------------------------------------------------
\* Properties

HashedCodes == {hash_password(c) : c \in Codes}

CodeMatches(stored, code) == stored = hash_password(code)

\* C1: verify checks, in this order, the expiry (400 Expired), the attempt
\* counter (429 at 5 or more), the code (400 InvalidCode, otp_attempts + 1);
\* otherwise it sets is_verified and zeroes otp_attempts.  Expired and
\* TooManyAttempts leave the user record as it was.
C1_VerifyChecksInOrder ==
    [][ (last'.op = "verify" /\ last'.uid # NoUser) =>
          LET uid == last'.uid
              user == users[uid]
              code == last'.arg
          IN  IF now > user.otp_expires_at
              THEN /\ last'.status = 400 /\ last'.detail = "OTP has expired"
                   /\ users' = users
              ELSE IF user.otp_attempts >= 5
              THEN /\ last'.status = 429
                   /\ users' = users
              ELSE IF ~CodeMatches(user.verification_code, code)
              THEN /\ last'.status = 400
                   /\ last'.detail = "Invalid verification code"
                   /\ users' = [users EXCEPT ![uid].otp_attempts = user.otp_attempts + 1]
              ELSE /\ last'.status = 200
                   /\ users'[uid].is_verified
                   /\ users'[uid].otp_attempts = 0
                   /\ users' = [users EXCEPT ![uid].is_verified = TRUE,
                                             ![uid].otp_attempts = 0,
                                             ![uid].verified_at = users'[uid].verified_at]
      ]_vars

\* the fifth mismatch in a row has just been counted
C1_Witness ==
    /\ last.op = "verify"
    /\ last.detail = "Invalid verification code"
    /\ users[last.uid].otp_attempts = 5

\* C2 as stated: once the counter of a stored code stands at 5, the next
\* verify / check_reset_code returns the rate-limit error (429 / 403),
\* whatever code it submits, and changes nothing.
C2_SixthAttemptRateLimited ==
    [][ /\ (last'.op = "verify" /\ last'.uid # NoUser
                /\ users[last'.uid].otp_attempts = 5)
            => (last'.status = 429 /\ users' = users)
        /\ (last'.op = "check_reset_code" /\ last'.uid # NoUser
                /\ users[last'.uid].reset_attempts = 5)
            => (last'.status = 403 /\ users' = users)
      ]_vars

\* C2 amended: the sixth attempt returns the rate-limit error when it is made
\* before the code expires and Expired (400) when it is made after; in both
\* cases whatever code it submits, and the user record is unchanged.
C2_SixthAttemptRejected ==
    [][ /\ (last'.op = "verify" /\ last'.uid # NoUser
                /\ users[last'.uid].otp_attempts = 5)
            => /\ users' = users
               /\ IF now > users[last'.uid].otp_expires_at
                  THEN last'.status = 400 /\ last'.detail = "OTP has expired"
                  ELSE last'.status = 429
        /\ (last'.op = "check_reset_code" /\ last'.uid # NoUser
                /\ users[last'.uid].reset_attempts = 5)
            => /\ users' = users
               /\ IF now > users[last'.uid].reset_code_expires_at
                  THEN last'.status = 400 /\ last'.detail = "Reset code expired"
                  ELSE last'.status = 403
      ]_vars

\* the correct reset code, submitted as the sixth attempt, is turned away
C2_Witness ==
    /\ last.op = "check_reset_code"
    /\ last.status = 403
    /\ users[last.uid].reset_attempts = 5
    /\ CodeMatches(users[last.uid].reset_code, last.arg)

\* C3: against an expired or exhausted code, two requests that differ only in
\* the submitted code get the same response and leave the same user record.
C3_NoOracleOnDeadCode ==
    \A uid \in 1..Len(users) : \A c1, c2 \in Codes :
        LET user == users[uid] IN
        /\ (now > user.otp_expires_at \/ user.otp_attempts >= 5)
            => verify_user(users, user.email, c1, now)
                 = verify_user(users, user.email, c2, now)
        /\ (/\ user.reset_code # NoHash
            /\ now > user.reset_code_expires_at \/ user.reset_attempts >= 5)
            => check_reset_code(users, user.email, c1, now)
                 = check_reset_code(users, user.email, c2, now)

\* the correct OTP was submitted after the expiry and answered Expired
C3_Witness ==
    /\ last.op = "verify"
    /\ last.detail = "OTP has expired"
    /\ CodeMatches(users[last.uid].verification_code, last.arg)

\* C4 as stated: a verify that replays the correct OTP for a user who is
\* already verified changes nothing in the user record, or fails with
\* NotFound / AlreadyVerified.
C4_ReplayHasNoSideEffect ==
    [][ (/\ last'.op = "verify" /\ last'.uid # NoUser
         /\ users[last'.uid].is_verified
         /\ CodeMatches(users[last'.uid].verification_code, last'.arg))
        => (users' = users \/ last'.status \in {404, 409})
      ]_vars

\* C5 as stated: confirm_reset replaces the password hash only when the reset
\* code is not expired and reset_attempts is below 5; a success stores the
\* hash of the new password and clears the three reset fields; a failure
\* leaves the record unchanged.
C5_ConfirmIsBounded ==
    [][ (last'.op = "confirm_password_reset" /\ last'.uid # NoUser) =>
          LET uid == last'.uid
              user == users[uid]
          IN  IF /\ user.reset_code_expires_at # NoTime
                 /\ now <= user.reset_code_expires_at
                 /\ user.reset_attempts < 5
              THEN /\ last'.status = 200
                   /\ users' = [users EXCEPT
                        ![uid].password_hash = hash_password(last'.arg),
                        ![uid].reset_code = NoHash,
                        ![uid].reset_code_expires_at = NoTime,
                        ![uid].reset_attempts = NoCount]
              ELSE /\ last'.status # 200
                   /\ users' = users
      ]_vars

\* C6: the stored verification and reset codes are hashes, never the code;
\* each comes with an expiry and an attempt counter, set to now + 10 minutes
\* and to 0 in the step that generates the code.
StoredCodesAreHashed ==
    \A uid \in 1..Len(users) :
        LET user == users[uid] IN
        /\ user.verification_code \in HashedCodes
        /\ user.verification_code \notin Codes
        /\ user.otp_expires_at # NoTime
        /\ user.otp_attempts \in 0..5
        /\ user.reset_code # NoHash =>
            /\ user.reset_code \in HashedCodes
            /\ user.reset_code \notin Codes
            /\ user.reset_code_expires_at # NoTime
            /\ user.reset_attempts \in 0..5

CodesStartFresh ==
    /\ Len(users') > Len(users) =>
        LET user == users'[Len(users')] IN
        /\ user.otp_expires_at = now + 10
        /\ user.otp_attempts = 0
    /\ (/\ last'.op = "request_password_reset"
        /\ find_one_email(users, last'.arg) # NoUser) =>
        LET user == users'[find_one_email(users, last'.arg)] IN
        /\ user.reset_code # NoHash
        /\ user.reset_code_expires_at = now + 10
        /\ user.reset_attempts = 0

C6_CodesHashedWithExpiryAndCounter ==
    [] StoredCodesAreHashed /\ [][CodesStartFresh]_vars

\* a reset code was just generated for a user who signed up earlier
C6_Witness ==
    /\ last.op = "request_password_reset"
    /\ last.status = 200
    /\ now > 0
    /\ \E uid \in 1..Len(users) : users[uid].reset_code \in HashedCodes

\* C7 as stated: at most one user record per email
C7_EmailsUnique ==
    \A i, j \in 1..Len(users) : i # j => users[i].email # users[j].email

\* C8: login succeeds (200, last_login := now) exactly when the email is
\* registered, the password matches and the user is verified; it answers 401
\* on an unknown email or bad password and 403 for an unverified user, and
\* then leaves every user record unchanged.
C8_LoginGuards ==
    [][ last'.op = "login" =>
          LET email == last'.arg[1]
              password == last'.arg[2]
              uid == find_one_email(users, email)
              known == uid # NoUser
              good == known /\ users[uid].password_hash = hash_password(password)
          IN  IF good /\ users[uid].is_verified
              THEN /\ last'.status = 200
                   /\ users' = [users EXCEPT ![uid].last_login = now]
              ELSE /\ last'.status = IF good THEN 403 ELSE 401
                   /\ users' = users
      ]_vars

\* a verified user has just logged in, some time after signing up
C8_Witness ==
    /\ last.op = "login"
    /\ last.status = 200
    /\ now > 0
    /\ \E uid \in 1..Len(users) : users[uid].last_login = now

\* C9 (as stated): every protected operation runs behind get_current_user.
\* A request to one of them whose bearer token does not decode, is past its
\* exp, or names no existing user is answered 401, is given no data, and
\* leaves the users and every collection as they were.
ProtectedOps ==
    { "send_message", "get_chat_history", "get_billing_summary",
      "get_billing_history", "connect_google_sheets", "exchange_code_and_ingest" }

C9_EveryProtectedOperationIsGated ==
    [][ last'.op \in ProtectedOps =>
          \/ get_current_user(users, last'.token, now).status = 200
          \/ /\ last'.status = 401
             /\ last'.body = <<>>
             /\ UNCHANGED <<users, storeVars>> ]_vars

\* the state connect_google_sheets most recently handed to this user
latest_state(uid) ==
    IF \E h \in oauth_log.handed : h[1] = uid
    THEN (CHOOSE h \in oauth_log.handed : h[1] = uid)[2]
    ELSE NoState

\* C10: an exchange trades the code with the provider only when the state of
\* the request is the state connect_google_sheets most recently handed to
\* the authenticated user; with a missing or different state it answers 400
\* "Invalid state", never contacts the provider and leaves every user
\* document (so the stored Google credentials) as it was; and a state that a
\* successful exchange accepted is answered 400 "Invalid state" from then on.
C10_ExchangeChecksAndConsumesState ==
    [][ last'.op = "exchange_code_and_ingest" /\ last'.uid # NoUser =>
          LET uid == last'.uid
              state == last'.arg
              matches == state # NoState /\ state = latest_state(uid)
              refused == /\ last'.status = 400
                         /\ last'.detail = "Invalid state"
                         /\ ~last'.body[1].fetch_token
                         /\ users' = users
          IN /\ last'.body[1].fetch_token => matches
             /\ ~matches => refused
             /\ <<uid, state>> \in oauth_log.consumed => refused ]_vars

\* a state that a successful exchange accepted is presented again
C10_Witness ==
    /\ last.op = "exchange_code_and_ingest"
    /\ last.uid # NoUser
    /\ <<last.uid, last.arg>> \in oauth_log.consumed
    /\ last.status = 400
    /\ users[last.uid].google_credentials # NoCreds
    /\ \E other \in 1..Len(users) : \E h \in oauth_log.handed :
            other # last.uid /\ h[1] = other

----------------------------------------------------------------------------
\* Chat turns and their storage writes

\* this step served a send_message whose agent invocation returned a response
TurnReturned ==
    /\ last'.op = "send_message"
    /\ last'.uid # NoUser
    /\ Len(turns') = Len(turns) + 1

\* this step served a send_message whose agent invocation threw
TurnThrew ==
    /\ last'.op = "send_message"
    /\ last'.uid # NoUser
    /\ users[last'.uid].can_chat
    /\ turns' = turns

billed(entry, turn) ==
    /\ entry.user_id = turn.uid
    /\ entry.session_id = turn.session_id
    /\ entry.total_tokens = turn.usage.total_tokens

\* C11 (as stated): a BillingEntry exists exactly for the agent turns that
\* returned a response. Every BillingEntry belongs to such a turn, and every
\* send_message whose agent invocation returned adds exactly one BillingEntry,
\* for the caller and the session of the request.
C11_BillingEntryIffTurnCompleted ==
    /\ [](\A i \in 1..Len(billing) : \E k \in 1..Len(turns) : billed(billing[i], turns[k]))
    /\ [][ TurnReturned =>
             /\ Len(billing') = Len(billing) + 1
             /\ SubSeq(billing', 1, Len(billing)) = billing
             /\ billed(billing'[Len(billing')], turns'[Len(turns')]) ]_vars

\* C12: when the agent invocation throws, the reply is the sentinel error
\* string with zero usage, no BillingEntry is created, and the caller's
\* cumulative counters are what they were before the call.
C12_ThrowLeavesNoTrace ==
    [][ TurnThrew =>
          /\ last'.status = 200
          /\ last'.body = turn_reply(ERROR_SENTINEL, NoUsage, 0)
          /\ billing' = billing
          /\ users'[last'.uid].stats = users[last'.uid].stats
          /\ chats' = chats \/ get_session(sessions, last'.arg) = 0 ]_vars

\* the agent threw in a session that already carries a billed turn
C12_Witness ==
    /\ last.op = "send_message"
    /\ last.detail = ERROR_SENTINEL
    /\ billing # <<>>
    /\ \A k \in 1..Len(turns) : turns[k].faults = {}
    /\ \E i \in 1..Len(billing) : billing[i].session_id = last.arg
    /\ users[last.uid].stats.total_tokens > 0

\* ---- concurrent turns of one session
\* no send_message request has a storage write left to make
Quiescent == \A k \in 1..Len(turns) : turns[k].todo = <<>>

\* the turns recorded for a session
turns_of(session_id) ==
    SelectSeq(turns, LAMBDA turn : turn.session_id = session_id)

RECURSIVE sum_usage(_, _)
sum_usage(ts, field) ==
    IF ts = <<>> THEN 0 ELSE Head(ts).usage[field] + sum_usage(Tail(ts), field)

\* C13: when the successful turns of a session have finished their storage
\* writes, in whatever order those writes interleaved, the total_tokens
\* counter of the session's ChatRecord is the sum of the turns' totals.
C13_ConcurrentTurnsSumTokens ==
    Quiescent =>
        \A k \in 1..Len(turns) :
            LET i == find_chat(chats, turns[k].session_id) IN
            /\ i # 0
            /\ chats[i].stats.total_tokens =
                   sum_usage(turns_of(turns[k].session_id), "total_tokens")

\* two turns of the same session, both with tokens, whose writes interleaved
\* (each had written before the other finished) and have all been made
C13_Witness ==
    /\ Quiescent
    /\ Len(turns) = 2
    /\ turns[1].session_id = turns[2].session_id
    /\ turns[1].usage.total_tokens > 0
    /\ turns[2].usage.total_tokens > 0
    /\ Len(billing) = 2
    /\ LET i == find_chat(chats, turns[1].session_id) IN
       /\ i # 0
       /\ \E m \in 1..Len(chats[i].messages) - 1 :
             /\ chats[i].messages[m].role = "user"
             /\ chats[i].messages[m + 1].role = "user"

\* ---- ChatRecord counters against the stored messages
RECURSIVE sum_messages(_, _)
sum_messages(messages, field) ==
    IF messages = <<>> THEN 0
    ELSE Head(messages).usage[field] + sum_messages(Tail(messages), field)

\* no storage write of any turn so far has failed
NoWriteFailed == \A k \in 1..Len(turns) : turns[k].faults = {}

\* C14: once a turn's writes have finished (none of them failing), the
\* ChatRecord's stats.total_tokens is the sum of usage.total_tokens over all
\* of its messages and stats.total_spent_usd is the sum of their costs.
C14_StatsEqualMessageSums ==
    NoWriteFailed =>
        \A i \in 1..Len(chats) :
            /\ chats[i].stats.total_tokens =
                   sum_messages(chats[i].messages, "total_tokens")
            /\ chats[i].stats.total_spent_usd =
                   sum_messages(chats[i].messages, "final_cost_usd")

\* ---- the three side effects of a turn
\* the write happened in this step: its effect is in the next state
write_applied(write, turn) ==
    CASE write = "user_stats" ->
           users'[turn.uid].stats.total_messages =
               users[turn.uid].stats.total_messages + 1
      [] write = "chat_stats" ->
           LET i == find_chat(chats', turn.session_id)
               j == find_chat(chats, turn.session_id)
           IN \/ i = 0
              \/ chats'[i].stats.total_messages =
                    (IF j = 0 THEN 0 ELSE chats[j].stats.total_messages) + 2
      [] write = "billing" -> Len(billing') = Len(billing) + 1
      [] OTHER -> TRUE

\* the write was attempted: it was made, or it was tried and failed
write_attempted(write, turn) ==
    write \in turn.faults \/ write_applied(write, turn)

\* C15: in a turn whose agent invocation returned, the user-counter
\* increment, the ChatRecord counter update and the BillingEntry insert are
\* each attempted, even when one of them fails.
C15_AllSideEffectsAttempted ==
    [][ TurnReturned =>
          \A write \in {"user_stats", "chat_stats", "billing"} :
              write_attempted(write, turns'[Len(turns')]) ]_vars

\* ---- order of the messages of a turn
\* the messages of the given role among the first n of a ChatRecord; the
\* welcome message of initialize_session belongs to no turn
count_role(messages, n, role) ==
    Cardinality({m \in 1..n : /\ messages[m].role = role
                              /\ messages[m].content # WELCOME_MESSAGE})

\* C16: in every reachable state every assistant message of a turn stands
\* after that turn's user message: no prefix of a ChatRecord holds more
\* assistant messages than user messages.
C16_NoOrphanAssistantMessage ==
    \A i \in 1..Len(chats) :
        \A n \in 1..Len(chats[i].messages) :
            count_role(chats[i].messages, n, "assistant")
                <= count_role(chats[i].messages, n, "user")

\* ---- metadata rows and the objects they name
\* this step served an upload_file / an exchange_code_and_ingest request
UploadServed == last'.op = "upload_file" /\ last'.uid # NoUser
ExchangeServed == last'.op = "exchange_code_and_ingest" /\ last'.uid # NoUser

\* the rows this step wrote: new ones and changed ones
written(before, after) ==
    {i \in 1..Len(after) : i > Len(before) \/ after[i] # before[i]}

\* the fput_object calls of the exchange served last, by outcome
puts_of(ok) ==
    {oauth_log'.puts[k].object : k \in {j \in 1..Len(oauth_log'.puts) :
                                          oauth_log'.puts[j].ok = ok}}

\* C17: a metadata row that upload_file or ingest_sheet writes carries
\* object_name and URL only if the put of that object succeeded in the same
\* operation; when the put fails the operation ends with an error and no row
\* of that object is written with storage fields.
C17_StorageFieldsOnlyAfterPut ==
    [][ /\ UploadServed =>
            /\ \A i \in written(files, files') :
                  files'[i].object_name # NoField =>
                      /\ files'[i].object_name \in uploads' \ uploads
                      /\ files'[i].url = upload_url(files'[i].object_name)
            /\ uploads' = uploads =>
                  /\ last'.status \in {422, 500}
                  /\ \A i \in written(files, files') :
                        /\ files'[i].object_name = NoField
                        /\ files'[i].url = NoField
        /\ ExchangeServed =>
            /\ \A i \in written(sheet_meta, sheet_meta') :
                  sheet_meta'[i].object_name \in puts_of(TRUE) \cap objects'
            /\ puts_of(FALSE) # {} =>
                  /\ last'.status = 500
                  /\ ~oauth_log'.puts[Len(oauth_log'.puts)].ok
                  /\ \A i \in written(sheet_meta, sheet_meta') :
                        sheet_meta'[i].object_name \notin puts_of(FALSE) ]_vars

\* an upload whose put failed has left its base row without storage fields
\* next to a finalized row, and the last ingest failed at its put after an
\* earlier one had written the sheet's row
C17_Witness ==
    /\ last.op = "upload_file"
    /\ last.status = 500
    /\ Len(files) = 2
    /\ files[1].object_name \in uploads
    /\ files[2].object_name = NoField
    /\ upload_object_name(files[2].user_id, files[2]._id) \notin uploads
    /\ Len(sheet_meta) = 1
    /\ Len(oauth_log.puts) = 1
    /\ ~oauth_log.puts[1].ok

\* ---- deleting a file from both stores
DeleteServed == last'.op = "delete_file" /\ last'.uid # NoUser

PLAIN_SUCCESS == "File deleted successfully"

\* the caller's row of the file named in the request, before the step
deleted_row == find_file(files, last'.arg, last'.uid, 1)

\* C18: delete_file by the owner reports the four outcomes distinctly: both
\* removed is the plain success; object removed with the row left is an error
\* naming the mismatch; row removed with the object left is a response with a
\* warning; neither removed is a failure. The plain success is given only when
\* neither the row nor the object is there afterwards.
C18_DeletionOutcomesDistinct ==
    [][ DeleteServed =>
          LET i == deleted_row
              object == files[i].object_name
              row_removed == find_file(files', last'.arg, last'.uid, 1) = 0
              object_removed == object \notin uploads'
              plain == /\ last'.status = 200
                       /\ last'.detail = PLAIN_SUCCESS
                       /\ "warning" \notin DOMAIN last'.body[1]
          IN /\ plain => i # 0 /\ row_removed /\ object_removed
             /\ (i # 0 /\ object \in uploads) =>
                   /\ object_removed /\ row_removed => plain
                   /\ object_removed /\ ~row_removed =>
                         /\ last'.status = 500
                         /\ last'.detail =
                              "File deleted from MinIO but not MongoDB (rollback not possible)"
                   /\ ~object_removed /\ row_removed =>
                         /\ last'.status = 200
                         /\ last'.detail # PLAIN_SUCCESS
                         /\ last'.body[1].warning = "MinIO object not found"
                   /\ ~object_removed /\ ~row_removed =>
                         /\ last'.status = 500
                         /\ last'.detail \notin
                              { PLAIN_SUCCESS,
                                "File deleted from MinIO but not MongoDB (rollback not possible)" }
                         /\ files' = files /\ uploads' = uploads ]_vars

\* a deletion answered with the warning: the row is gone, the object is not,
\* while another file of the store is still whole
C18_Witness ==
    /\ last.op = "delete_file"
    /\ last.status = 200
    /\ "warning" \in DOMAIN last.body[1]
    /\ find_file(files, last.arg, last.uid, 1) = 0
    /\ upload_object_name(last.uid, last.arg) \in uploads
    /\ \E i \in 1..Len(files) : files[i].object_name \in uploads

\* C19: delete_file makes no partial deletion: whenever it returns for a file
\* whose row and object were both there, both are gone or both are still there.
C19_NoPartialDeletion ==
    [][ (DeleteServed /\ deleted_row # 0) =>
          LET object == files[deleted_row].object_name IN
          object \in uploads =>
              (find_file(files', last'.arg, last'.uid, 1) = 0  <=>  object \notin uploads') ]_vars

\* ---- repeated ingests of a sheet
pair_of(row) == <<row.owner_id, row.sheet_id>>

\* the rows of spreadsheet_metadata that belong to a (user id, sheet id) pair
rows_of(rows, pair) == {i \in 1..Len(rows) : pair_of(rows[i]) = pair}

\* the meta documents the ingest_sheet calls of this request returned
ingested_now == oauth_log'.ingested

\* the last of them for a pair
latest_ingest(pair) ==
    ingested_now[CHOOSE k \in 1..Len(ingested_now) :
                    /\ pair_of(ingested_now[k]) = pair
                    /\ \A j \in k + 1..Len(ingested_now) : pair_of(ingested_now[j]) # pair]

\* C20: however often a sheet is ingested for a user, there is one metadata
\* row for the (user id, sheet id) pair and it holds what the most recent
\* ingest_sheet wrote; the rows of the other pairs stay as they are.
C20_IngestIdempotentOnMetadata ==
    /\ [](\A i, j \in 1..Len(sheet_meta) :
            pair_of(sheet_meta[i]) = pair_of(sheet_meta[j]) => i = j)
    /\ [][ ExchangeServed =>
             LET pairs == {pair_of(ingested_now[k]) : k \in 1..Len(ingested_now)} IN
             /\ \A pair \in pairs :
                   /\ Cardinality(rows_of(sheet_meta', pair)) = 1
                   /\ \A i \in rows_of(sheet_meta', pair) :
                         /\ sheet_meta'[i] = latest_ingest(pair)
                         /\ sheet_meta'[i].updated_at = now
             /\ \A i \in 1..Len(sheet_meta) :
                   pair_of(sheet_meta[i]) \notin pairs =>
                       \E j \in 1..Len(sheet_meta') : sheet_meta'[j] = sheet_meta[i]
             /\ Len(sheet_meta') =
                   Len(sheet_meta)
                     + Cardinality({pair \in pairs : rows_of(sheet_meta, pair) = {}}) ]_vars

\* a second successful exchange of the same user has ingested the sheet again,
\* later than the first: the one row carries the time of this ingest
C20_Witness ==
    /\ last.op = "exchange_code_and_ingest"
    /\ last.status = 200
    /\ Cardinality({c \in oauth_log.consumed : c[1] = last.uid}) = 2
    /\ Len(oauth_log.ingested) = 1
    /\ now > 0
    /\ Len(sheet_meta) = 1
    /\ sheet_meta[1] = oauth_log.ingested[1]
    /\ sheet_meta[1].updated_at = now

\* ---- the life of a session
\* this step served a send_message request of an authenticated caller
MessageServed == last'.op = "send_message" /\ last'.uid # NoUser

\* the ChatRecord of the session holds a user message with this content
holds_prompt(cs, session_id, content) ==
    LET i == find_chat(cs, session_id) IN
    /\ i # 0
    /\ \E m \in 1..Len(cs[i].messages) :
          /\ cs[i].messages[m].role = "user"
          /\ cs[i].messages[m].content = content

\* C21: a send_message with an unknown session id mints an id, persists one
\* Session row binding it to the caller and the model, seeds the ChatRecord of
\* that id with the welcome message and records the turn's messages under
\* that id; a send_message with a known id creates no Session row.
C21_SessionCreatedOnceAndUsed ==
    [][ MessageServed =>
          IF get_session(sessions, last'.arg) = 0
          THEN /\ Len(sessions') = Len(sessions) + 1
               /\ LET row == sessions'[Len(sessions')]
                      i == find_chat(chats', row.session_id)
                  IN /\ row.user_id = last'.uid
                     /\ row.model = MODEL_NAME
                     /\ i # 0
                     /\ chats'[i].messages[1].content = WELCOME_MESSAGE
                     /\ (TurnReturned /\ turns'[Len(turns')].faults = {}) =>
                           holds_prompt(chats', row.session_id,
                                        turns'[Len(turns')].content)
          ELSE sessions' = sessions ]_vars

\* C22: a Session row that initialize_session persisted is never deleted or
\* rebound: after every later operation get_session finds it, with the same
\* owning user and the same model.
C22_SessionRowsPersist ==
    [][ \A i \in 1..Len(sessions) :
          sessions[i].session_id # NoSession =>
              LET j == get_session(sessions', sessions[i].session_id) IN
              /\ j # 0
              /\ sessions'[j].user_id = sessions[i].user_id
              /\ sessions'[j].model = sessions[i].model ]_vars

\* ---- whose data the tools of a turn read
\* C23: in every chat turn the user id the tools are closed over is the id of
\* the user that get_current_user authenticated for the request.
C23_ToolsBoundToAuthenticatedUser ==
    \A k \in 1..Len(turns) : turns[k].tool_user = turns[k].uid

\* ---- whose data a read returns
\* the users a session id belongs to: the owner of its Session row and the
\* users whose turns were recorded under it
owners(session_id) ==
    {sessions[i].user_id : i \in {j \in 1..Len(sessions) :
                                     sessions[j].session_id = session_id}}
    \cup {turns[k].uid : k \in {j \in 1..Len(turns) :
                                   turns[j].session_id = session_id}}

\* the user the bearer token of this step's request authenticates, if any
reader == get_current_user(users, last'.token, now)

\* C24: a read invoked by user U returns no item owned by another user: the
\* chat history U gets is of a session of U, and the billing records U gets
\* are U's.
C24_ReadsIsolatedByOwner ==
    [][ reader.status = 200 =>
          /\ (last'.op = "get_chat_history" /\ last'.body # <<>>) =>
                owners(last'.arg) \subseteq {reader.uid}
          /\ last'.op = "get_billing_history" =>
                \A i \in 1..Len(last'.body) : last'.body[i].user_id = reader.uid ]_vars

\* ---- the window of messages given to the model
\* the last n elements of a sequence, all of it when it is shorter
suffix(seq, n) ==
    IF Len(seq) <= n THEN seq ELSE SubSeq(seq, Len(seq) - n + 1, Len(seq))

\* C25: before each model call only the last 5 messages are kept: the list
\* passed to the model is the suffix of the thread of length min(5, length),
\* and the stored ChatRecords are untouched.
C25_ModelSeesLastFive ==
    [][ last'.op = "pre_model_hook" =>
          /\ last'.body = suffix(last'.arg, 5)
          /\ chats' = chats ]_vars

\* ---- the waitlist gate
\* C26: a send_message of a user whose can_chat flag is false is answered 403
\* and leaves the stored state as it was: no Session row, no ChatRecord, no
\* counter change, no BillingEntry.
C26_WaitlistRejectionChangesNothing ==
    [][ (MessageServed /\ ~users[last'.uid].can_chat) =>
          /\ last'.status = 403
          /\ last'.detail = WAITLIST_DETAIL
          /\ turns' = turns
          /\ users' = users
          /\ sessions' = sessions
          /\ chats' = chats
          /\ billing' = billing ]_vars

\* ---- what a password reset takes
\* C27: the password hash is replaced through the reset flow only if a
\* check_reset_code accepted the emailed code since the latest
\* request_password_reset. In particular a confirm_password_reset that
\* directly follows the request of the same user, with no check in between,
\* does not succeed and replaces nothing.
C27_ConfirmNeedsAcceptedCode ==
    [][ (/\ last.op = "request_password_reset"
         /\ last.status = 200
         /\ last'.op = "confirm_password_reset"
         /\ last'.uid # NoUser
         /\ last'.uid = find_one_email(users, last.arg)) =>
          /\ last'.status # 200
          /\ users'[last'.uid].password_hash = users[last'.uid].password_hash ]_vars

\* ---- whose session a turn is recorded in
\* C28: send_message records and bills a turn in a session only when the
\* Session row of the supplied id is owned by the caller: with the id of
\* another user's session nothing is added to that session's ChatRecord and
\* no BillingEntry names it.
C28_TurnsOnlyInOwnSessions ==
    [][ MessageServed =>
          LET j == get_session(sessions, last'.arg) IN
          (j # 0 /\ sessions[j].user_id # last'.uid) =>
              /\ chats' = chats
              /\ billing' = billing ]_vars

\* ---- the user ledger against the billing records
\* C29: after every finished send_message, whichever of its writes failed,
\* each user's stats.total_tokens is the sum of total_tokens over the user's
\* BillingEntries and stats.total_messages is their number, and the usage
\* returned to the caller is what the turn added to the user's counters.
C29_LedgerAgreesWithBilling ==
    /\ [](\A uid \in 1..Len(users) :
            /\ users[uid].stats.total_tokens =
                   sum_field(of_user(billing, uid), "total_tokens")
            /\ users[uid].stats.total_messages = Len(of_user(billing, uid)))
    /\ [][ (MessageServed /\ last'.status = 200) =>
             /\ last'.body[1].total_tokens =
                   users'[last'.uid].stats.total_tokens
                     - users[last'.uid].stats.total_tokens
             /\ last'.body[1].final_cost_usd =
                   users'[last'.uid].stats.spent_usd - users[last'.uid].stats.spent_usd ]_vars

\* ---- the attempt bound under concurrent requests
\* C30: for any interleaving of concurrent verify requests of a user,
\* otp_attempts never exceeds 5, so at most 5 wrong codes are compared
\* against one stored code.
C30_AttemptBoundUnderConcurrency ==
    \A uid \in 1..Len(users) : users[uid].otp_attempts <= MAX_OTP_ATTEMPTS

====
